---- MODULE Spec2Model ----
(***************************************************************************)
(* A model of src/src/bears.py: the DataTable container (column get/set,   *)
(* group-by count, sum, avg, and map) and the read_csv loader.             *)
(*                                                                         *)
(* A Python dict is modelled as the sequence of its items [k, v] in        *)
(* insertion order.  A Python value held in a column is a tagged record:   *)
(* Num(n) for an int, Str(s) for a str.  The model follows one DataTable   *)
(* instance: it is created by DataTable(dict) or by read_csv(file), and    *)
(* then the public operations are applied to it in any order.              *)
(***************************************************************************)
EXTENDS Integers, Sequences, FiniteSets, TLC

VARIABLES
    pc,           \* "new": no table yet; "ready": between two calls; "returned": a call has
                  \* just ended and its outcome is in last; "failed": read_csv raised
    data_table,   \* DataTable.data_table, the dict column name -> list
    last,         \* the last call: its name, arguments and outcome
    last_set,     \* history: per column, the list last bound by __init__, read_csv or __setitem__
    last_bound    \* history: as last_set, and also rebound by a successful map

vars == <<pc, data_table, last, last_set, last_bound>>

----------------------------------------------------------------------------
(* Bounds of the model *)

\* longest list a caller passes to DataTable(...) or to __setitem__
MaxLen == 2
\* most data rows in a CSV file
MaxRows == 2
\* most fields in one CSV row
MaxFields == 2
\* largest number a transform may produce (map is not taken beyond it)
MaxNum == 4

----------------------------------------------------------------------------
(* Values *)

Num(n) == [tag |-> "num", n |-> n, s |-> ""]
Str(s) == [tag |-> "str", n |-> 0, s |-> s]

ColNames == {"A", "B"}
\* the values a caller stores: two numbers and a text
SetValues == {Num(1), Num(2), Str("x")}
\* the fields of a CSV file, as text
Fields == {"1", "x"}
\* the transforms a caller passes to map
Funcs == {"square", "int", "throws"}

SeqsUpTo(S, n) == UNION {[1..k -> S] : k \in 0..n}

Min(a, b) == IF a <= b THEN a ELSE b

\* isinstance(col_value, numbers.Number)
IsNumber(v) == v.tag = "num"

----------------------------------------------------------------------------
(* Python dict, in insertion order *)

DictKeys(d) == {d[i].k : i \in 1..Len(d)}

\* k in d
DictHas(d, k) == \E i \in 1..Len(d) : d[i].k = k

\* d[k], for a key that is present
DictGet(d, k) == d[CHOOSE i \in 1..Len(d) : d[i].k = k].v

\* d[k] = v: a present key keeps its place, a new key goes last
DictSet(d, k, v) ==
    IF DictHas(d, k)
    THEN [i \in 1..Len(d) |-> IF d[i].k = k THEN [k |-> k, v |-> v] ELSE d[i]]
    ELSE Append(d, [k |-> k, v |-> v])

\* d[k] of a defaultdict(int): a missing key reads as int() = 0
DefaultGet(d, k) == IF DictHas(d, k) THEN DictGet(d, k) ELSE 0

----------------------------------------------------------------------------
(* Outcomes of a call: the value returned, or the exception raised.        *)
(* steps is the number of loop iterations completed before the outcome.    *)

Ok(out, steps) == [status |-> "ok", out |-> out, steps |-> steps]
Raise(exc, steps) == [status |-> exc, out |-> <<>>, steps |-> steps]

----------------------------------------------------------------------------
(* DataTable *)

\* _validate_col_name: TRUE when it returns, FALSE when it raises ValueError
validate_col_name(dt, col_name) == DictHas(dt, col_name)

\* variant of __getitem__: an absent column reads as the empty list (dict.get)
getitem_Default(dt, col_name) ==
    IF ~validate_col_name(dt, col_name)
    THEN Ok(<<>>, 0)
    ELSE Ok(DictGet(dt, col_name), 0)

getitem(dt, col_name) ==
    IF ~validate_col_name(dt, col_name)
    THEN Raise("ValueError", 0)
    ELSE Ok(DictGet(dt, col_name), 0)

\* variant of __setitem__: a present column keeps its list (dict.setdefault)
setitem_SetDefault(dt, col_name, values) ==
    IF DictHas(dt, col_name) THEN dt ELSE DictSet(dt, col_name, values)

setitem(dt, col_name, values) == DictSet(dt, col_name, values)

\* variant of the loop of count: result[group_by_value] = 1
RECURSIVE CountLoop_Assign(_, _, _)
CountLoop_Assign(group_by_values, i, result) ==
    IF i > Len(group_by_values)
    THEN Ok(result, i - 1)
    ELSE CountLoop_Assign(group_by_values, i + 1,
                          DictSet(result, group_by_values[i], 1))

RECURSIVE CountLoop(_, _, _)
CountLoop(group_by_values, i, result) ==
    IF i > Len(group_by_values)
    THEN Ok(result, i - 1)
    ELSE CountLoop(group_by_values, i + 1,
                   DictSet(result, group_by_values[i],
                           DefaultGet(result, group_by_values[i]) + 1))

count(dt, group_by) ==
    IF ~validate_col_name(dt, group_by)
    THEN Raise("ValueError", 0)
    ELSE CountLoop(DictGet(dt, group_by), 1, <<>>)

\* zip(col_values, group_by_values) stops at the shorter list
ZipLen(col_values, group_by_values) == Min(Len(col_values), Len(group_by_values))

\* variant of the loop of sum: result[group_by_value] = col_value
RECURSIVE SumLoop_Assign(_, _, _, _)
SumLoop_Assign(col_values, group_by_values, i, result) ==
    IF i > ZipLen(col_values, group_by_values)
    THEN Ok(result, i - 1)
    ELSE IF ~IsNumber(col_values[i])
    THEN Raise("TypeError", i - 1)
    ELSE SumLoop_Assign(col_values, group_by_values, i + 1,
                        DictSet(result, group_by_values[i], col_values[i].n))

\* variant of the loop of sum: an element that is no number is skipped
RECURSIVE SumLoop_Skip(_, _, _, _)
SumLoop_Skip(col_values, group_by_values, i, result) ==
    IF i > ZipLen(col_values, group_by_values)
    THEN Ok(result, i - 1)
    ELSE IF ~IsNumber(col_values[i])
    THEN SumLoop_Skip(col_values, group_by_values, i + 1, result)
    ELSE SumLoop_Skip(col_values, group_by_values, i + 1,
                      DictSet(result, group_by_values[i],
                              DefaultGet(result, group_by_values[i]) + col_values[i].n))

RECURSIVE SumLoop(_, _, _, _)
SumLoop(col_values, group_by_values, i, result) ==
    IF i > ZipLen(col_values, group_by_values)
    THEN Ok(result, i - 1)
    ELSE IF ~IsNumber(col_values[i])
    THEN Raise("TypeError", i - 1)
    ELSE SumLoop(col_values, group_by_values, i + 1,
                 DictSet(result, group_by_values[i],
                         DefaultGet(result, group_by_values[i]) + col_values[i].n))

sum(dt, col_name, group_by) ==
    IF ~validate_col_name(dt, col_name) \/ ~validate_col_name(dt, group_by)
    THEN Raise("ValueError", 0)
    ELSE SumLoop(DictGet(dt, col_name), DictGet(dt, group_by), 1, <<>>)

RECURSIVE GCD(_, _)
GCD(a, b) == IF b = 0 THEN a ELSE GCD(b, a % b)

\* variant of /: the floor division a // b
TrueDiv_Floor(a, b) == [num |-> a \div b, den |-> 1]

\* a / b of two ints, b > 0: the exact quotient, kept as a fraction in lowest terms
TrueDiv(a, b) == [num |-> a \div GCD(a, b), den |-> b \div GCD(a, b)]

\* {k: sum[k]/count[k] for k in sum.keys()}
RECURSIVE AvgLoop(_, _, _, _)
AvgLoop(sums, counts, i, result) ==
    IF i > Len(sums)
    THEN Ok(result, i - 1)
    ELSE IF DefaultGet(counts, sums[i].k) = 0
    THEN Raise("ZeroDivisionError", i - 1)
    ELSE AvgLoop(sums, counts, i + 1,
                 DictSet(result, sums[i].k,
                         TrueDiv(sums[i].v, DefaultGet(counts, sums[i].k))))

avg(dt, col_name, group_by) ==
    IF ~validate_col_name(dt, col_name) \/ ~validate_col_name(dt, group_by)
    THEN Raise("ValueError", 0)
    ELSE LET s == sum(dt, col_name, group_by)
         IN  IF s.status # "ok"
             THEN s
             ELSE AvgLoop(s.out, count(dt, group_by).out, 1, <<>>)

\* int(text) on the texts of the model
IntOf(s) == IF s = "1" THEN Ok(Num(1), 0) ELSE Raise("ValueError", 0)

\* func(x) for the transforms of the tests and of the report client
Apply(func, x) ==
    CASE func = "square" -> IF IsNumber(x) THEN Ok(Num(x.n * x.n), 0)
                                           ELSE Raise("TypeError", 0)
      [] func = "int"    -> IF IsNumber(x) THEN Ok(x, 0) ELSE IntOf(x.s)
      [] func = "throws" -> Raise("Exception", 0)

\* variant of the comprehension of map: each new value is put in front
RECURSIVE MapLoop_Front(_, _, _, _)
MapLoop_Front(values, func, i, acc) ==
    IF i > Len(values)
    THEN Ok(acc, i - 1)
    ELSE LET r == Apply(func, values[i])
         IN  IF r.status # "ok"
             THEN Raise(r.status, i - 1)
             ELSE MapLoop_Front(values, func, i + 1, <<r.out>> \o acc)

\* [func(x) for x in values]: the new list is built aside, element by element
RECURSIVE MapLoop(_, _, _, _)
MapLoop(values, func, i, acc) ==
    IF i > Len(values)
    THEN Ok(acc, i - 1)
    ELSE LET r == Apply(func, values[i])
         IN  IF r.status # "ok"
             THEN Raise(r.status, i - 1)
             ELSE MapLoop(values, func, i + 1, Append(acc, r.out))

\* variant of map: the list is transformed in place, element by element, so a
\* failing transform leaves the elements before it replaced
map_InPlace(dt, col_name, func) ==
    IF ~validate_col_name(dt, col_name)
    THEN [res |-> Raise("ValueError", 0), dt |-> dt]
    ELSE LET old == DictGet(dt, col_name)
             r == MapLoop(old, func, 1, <<>>)
         IN  IF r.status # "ok"
             THEN [res |-> r,
                   dt |-> DictSet(dt, col_name,
                                  [i \in 1..Len(old) |->
                                     IF i <= r.steps THEN Apply(func, old[i]).out
                                                     ELSE old[i]])]
             ELSE [res |-> Ok(<<>>, r.steps), dt |-> DictSet(dt, col_name, r.out)]

\* map: the outcome, and the table after the call
map(dt, col_name, func) ==
    IF ~validate_col_name(dt, col_name)
    THEN [res |-> Raise("ValueError", 0), dt |-> dt]
    ELSE LET r == MapLoop(DictGet(dt, col_name), func, 1, <<>>)
         IN  IF r.status # "ok"
             THEN [res |-> r, dt |-> dt]
             ELSE [res |-> Ok(<<>>, r.steps), dt |-> DictSet(dt, col_name, r.out)]

----------------------------------------------------------------------------
(* read_csv.  A file is the sequence of rows csv.reader yields, each row a  *)
(* sequence of texts; a blank line is the empty row.                       *)

\* variant of the row loop of read_csv: data[idx].insert(0, col_value)
AppendRow_Front(data, row_values) ==
    [idx \in 1..Len(data) |-> <<Str(row_values[idx])>> \o data[idx]]

\* data[idx].append(col_value) for every idx, col_value of the row
AppendRow(data, row_values) ==
    [idx \in 1..Len(data) |-> Append(data[idx], Str(row_values[idx]))]

\* {col_names[idx]: data[idx] for idx in range(len(col_names))}
RECURSIVE DataWithHeader(_, _, _, _)
DataWithHeader(col_names, data, idx, result) ==
    IF idx > Len(col_names)
    THEN result
    ELSE DataWithHeader(col_names, data, idx + 1,
                        DictSet(result, col_names[idx], data[idx]))

\* variant of read_csv: a row of the wrong width is skipped
RECURSIVE ReadLoop_Skip(_, _, _, _)
ReadLoop_Skip(rows, row_num, col_names, data) ==
    IF row_num > Len(rows)
    THEN Ok(DataWithHeader(col_names, data, 1, <<>>), row_num - 1)
    ELSE IF row_num = 1
    THEN ReadLoop_Skip(rows, row_num + 1, rows[1], [idx \in 1..Len(rows[1]) |-> <<>>])
    ELSE IF Len(rows[row_num]) # Len(col_names)
    THEN ReadLoop_Skip(rows, row_num + 1, col_names, data)
    ELSE ReadLoop_Skip(rows, row_num + 1, col_names, AppendRow(data, rows[row_num]))

RECURSIVE ReadLoop(_, _, _, _)
ReadLoop(rows, row_num, col_names, data) ==
    IF row_num > Len(rows)
    THEN Ok(DataWithHeader(col_names, data, 1, <<>>), row_num - 1)
    ELSE IF row_num = 1
    THEN ReadLoop(rows, row_num + 1, rows[1], [idx \in 1..Len(rows[1]) |-> <<>>])
    ELSE IF Len(rows[row_num]) # Len(col_names)
    THEN Raise("ValueError", row_num - 1)
    ELSE ReadLoop(rows, row_num + 1, col_names, AppendRow(data, rows[row_num]))

read_csv(file) == ReadLoop(file, 1, <<>>, <<>>)

----------------------------------------------------------------------------
(* Inputs *)

Columns == SeqsUpTo(SetValues, MaxLen)

NameOrders == {o \in SeqsUpTo(ColNames, Cardinality(ColNames)) :
                 \A i, j \in 1..Len(o) : i # j => o[i] # o[j]}

\* the dicts a caller passes to DataTable(...)
Dicts == UNION {{[i \in 1..Len(o) |-> [k |-> o[i], v |-> vs[i]]] :
                    vs \in [1..Len(o) -> Columns]} : o \in NameOrders}

Rows == SeqsUpTo(Fields, MaxFields)
Headers == SeqsUpTo(ColNames, MaxFields)
\* the empty file, or a header row followed by data rows
Files == {<<>>} \cup {<<h>> \o rs : h \in Headers, rs \in SeqsUpTo(Rows, MaxRows)}

\* the bindings of a table as a function on ColNames (<<>> for an absent column)
Bindings(dt) == [c \in ColNames |-> IF DictHas(dt, c) THEN DictGet(dt, c) ELSE <<>>]

NoCall == [op |-> "none", col |-> "", grp |-> "", fn |-> "", arg |-> <<>>,
           res |-> Ok(<<>>, 0)]

Call(op, col, grp, fn, arg, res) ==
    [op |-> op, col |-> col, grp |-> grp, fn |-> fn, arg |-> arg, res |-> res]

----------------------------------------------------------------------------
(* The state machine *)

Init ==
    /\ pc = "new"
    /\ data_table = <<>>
    /\ last = NoCall
    /\ last_set = Bindings(<<>>)
    /\ last_bound = Bindings(<<>>)

\* DataTable(d)
New ==
    /\ pc = "new"
    /\ \E d \in Dicts :
          /\ pc' = "returned"
          /\ data_table' = d
          /\ last' = Call("init", "", "", "", d, Ok(<<>>, 0))
          /\ last_set' = Bindings(d)
          /\ last_bound' = Bindings(d)

\* read_csv(file)
Load ==
    /\ pc = "new"
    /\ \E file \in Files :
          LET r == read_csv(file)
          IN  /\ last' = Call("load", "", "", "", file, [r EXCEPT !.out = <<>>])
              /\ IF r.status = "ok"
                 THEN /\ pc' = "returned"
                      /\ data_table' = r.out
                      /\ last_set' = Bindings(r.out)
                      /\ last_bound' = Bindings(r.out)
                 ELSE /\ pc' = "failed"
                      /\ UNCHANGED <<data_table, last_set, last_bound>>

\* data_table[col_name]
Get(col_name) ==
    /\ pc = "ready"
    /\ last' = Call("get", col_name, "", "", <<>>, getitem(data_table, col_name))
    /\ pc' = "returned"
    /\ UNCHANGED <<data_table, last_set, last_bound>>

\* data_table[col_name] = values
Set(col_name, values) ==
    /\ pc = "ready"
    /\ data_table' = setitem(data_table, col_name, values)
    /\ last' = Call("set", col_name, "", "", values, Ok(<<>>, 0))
    /\ last_set' = [last_set EXCEPT ![col_name] = values]
    /\ last_bound' = [last_bound EXCEPT ![col_name] = values]
    /\ pc' = "returned"

\* data_table.count(group_by)
Count(group_by) ==
    /\ pc = "ready"
    /\ last' = Call("count", "", group_by, "", <<>>, count(data_table, group_by))
    /\ pc' = "returned"
    /\ UNCHANGED <<data_table, last_set, last_bound>>

\* data_table.sum(col_name, group_by)
Sum(col_name, group_by) ==
    /\ pc = "ready"
    /\ last' = Call("sum", col_name, group_by, "", <<>>,
                    sum(data_table, col_name, group_by))
    /\ pc' = "returned"
    /\ UNCHANGED <<data_table, last_set, last_bound>>

\* data_table.avg(col_name, group_by)
Avg(col_name, group_by) ==
    /\ pc = "ready"
    /\ last' = Call("avg", col_name, group_by, "", <<>>,
                    avg(data_table, col_name, group_by))
    /\ pc' = "returned"
    /\ UNCHANGED <<data_table, last_set, last_bound>>

\* the numbers of a list stay within the model's range
InRange(values) == \A i \in 1..Len(values) : values[i].n <= MaxNum

\* data_table.map(col_name, func)
Map(col_name, func) ==
    /\ pc = "ready"
    /\ LET m == map(data_table, col_name, func)
       IN  /\ DictHas(m.dt, col_name) => InRange(DictGet(m.dt, col_name))
           /\ data_table' = m.dt
           /\ last' = Call("map", col_name, "", func, <<>>, m.res)
           /\ last_bound' = IF m.res.status = "ok"
                            THEN [last_bound EXCEPT ![col_name] = DictGet(m.dt, col_name)]
                            ELSE last_bound
    /\ pc' = "returned"
    /\ UNCHANGED last_set

\* the caller takes the outcome of the call and goes on to its next call
Return ==
    /\ pc = "returned"
    /\ pc' = "ready"
    /\ last' = NoCall
    /\ UNCHANGED <<data_table, last_set, last_bound>>

Next ==
    \/ New
    \/ Load
    \/ \E c \in ColNames : Get(c)
    \/ \E c \in ColNames, v \in Columns : Set(c, v)
    \/ \E g \in ColNames : Count(g)
    \/ \E c \in ColNames, g \in ColNames : Sum(c, g)
    \/ \E c \in ColNames, g \in ColNames : Avg(c, g)
    \/ \E c \in ColNames, f \in Funcs : Map(c, f)
    \/ Return

Spec == Init /\ [][Next]_vars

----------------------------------------------------------------------------
(* Vocabulary of the properties, stated on the columns themselves and not   *)
(* through the operators that model the code.                               *)

Returned(op) == pc = "returned" /\ last.op = op
Present(c) == \E i \in 1..Len(data_table) : data_table[i].k = c
Column(c) == DictGet(data_table, c)
AllNumeric(v) == \A i \in 1..Len(v) : v[i].tag = "num"
Distinct(g, n) == {g[i] : i \in 1..n}
UniqueKeys(d) == \A i, j \in 1..Len(d) : d[i].k = d[j].k => i = j
Shorter(v, g) == IF Len(v) <= Len(g) THEN Len(v) ELSE Len(g)

\* the number of rows among the first n whose group key is k
GroupSize(g, k, n) == Cardinality({i \in 1..n : g[i] = k})

\* the sum of v[i] over the rows i among the first n whose group key is k
RECURSIVE GroupTotal(_, _, _, _)
GroupTotal(v, g, k, n) ==
    IF n = 0 THEN 0
    ELSE GroupTotal(v, g, k, n - 1) + (IF g[n] = k THEN v[n].n ELSE 0)

RECURSIVE Total(_)
Total(d) == IF d = <<>> THEN 0 ELSE Head(d).v + Total(Tail(d))

\* the first index of v that holds no number (0 when there is none among the first n)
FirstBad(v, n) ==
    IF \E i \in 1..n : v[i].tag # "num"
    THEN CHOOSE i \in 1..n : v[i].tag # "num" /\ \A j \in 1..(i - 1) : v[j].tag = "num"
    ELSE 0

\* the call names a column that the table dt does not have
AbsentArgs(dt, call) ==
    \/ call.op \in {"get", "map"} /\ ~DictHas(dt, call.col)
    \/ call.op = "count" /\ ~DictHas(dt, call.grp)
    \/ call.op \in {"sum", "avg"} /\ (~DictHas(dt, call.col) \/ ~DictHas(dt, call.grp))

\* the data rows of a file whose width differs from the header's, and the first of them
BadRows(file) == {r \in 2..Len(file) : Len(file[r]) # Len(file[1])}
FirstBadRow(file) == CHOOSE r \in BadRows(file) : \A q \in BadRows(file) : r <= q

\* the j-th fields of the data rows of a file, in row order, as text
FieldsAt(file, j) == [r \in 1..(Len(file) - 1) |-> Str(file[r + 1][j])]

\* the first and the last position of the name c in the header h
FirstPos(h, c) == CHOOSE j \in 1..Len(h) : h[j] = c /\ \A q \in 1..(j - 1) : h[q] # c
LastPos(h, c) == CHOOSE j \in 1..Len(h) : h[j] = c /\ \A q \in (j + 1)..Len(h) : h[q] # c

\* the first element of a list on which the transform fails
FirstFailure(func, values) ==
    CHOOSE i \in 1..Len(values) :
        /\ Apply(func, values[i]).status # "ok"
        /\ \A j \in 1..(i - 1) : Apply(func, values[j]).status = "ok"

----------------------------------------------------------------------------
(* C1: get, count, sum, avg and map on a column name that is absent from    *)
(* the table (for sum and avg: col_name or group_by absent) raise           *)
(* ValueError before any other work is done (no loop iteration, no value    *)
(* returned), and leave the table's column mapping exactly as it was.       *)
C1_AbsentColumnRaises ==
    [][(pc = "ready" /\ pc' = "returned" /\ AbsentArgs(data_table, last'))
         => /\ last'.res.status = "ValueError"
            /\ last'.res.steps = 0
            /\ last'.res.out = <<>>
            /\ data_table' = data_table]_vars

\* sum raised ValueError although col_name is present: group_by is the absent one
C1_Witness ==
    /\ Returned("sum")
    /\ last.res.status = "ValueError"
    /\ Present(last.col)
    /\ ~Present(last.grp)
    /\ Len(Column(last.col)) > 0

----------------------------------------------------------------------------
(* C2: count(group_by) on a present column g1..gn returns a mapping whose   *)
(* keys are exactly the distinct values of the column, each key k carrying  *)
(* the number of rows i with gi = k; the counts are >= 1 and add up to n.   *)
C2_CountPerKey ==
    (Returned("count") /\ Present(last.grp))
      => LET g == Column(last.grp)
             out == last.res.out
         IN  /\ last.res.status = "ok"
             /\ UniqueKeys(out)
             /\ {out[i].k : i \in 1..Len(out)} = Distinct(g, Len(g))
             /\ \A i \in 1..Len(out) :
                   /\ out[i].v = GroupSize(g, out[i].k, Len(g))
                   /\ out[i].v >= 1
             /\ Total(out) = Len(g)

\* a count over a column in which two rows hold the same key
C2_Witness ==
    /\ Returned("count")
    /\ Present(last.grp)
    /\ \E i \in 1..Len(last.res.out) : last.res.out[i].v = 2

----------------------------------------------------------------------------
(* C3: when col_name holds only numbers, sum(col_name, group_by)[k] is, for *)
(* every group key k, the sum of the col_name values over exactly the rows  *)
(* whose group_by value is k, a group's total starting at 0.  A row is an   *)
(* index at which both columns hold a value.                                *)
C3_SumPerKey ==
    (Returned("sum") /\ Present(last.col) /\ Present(last.grp)
       /\ AllNumeric(Column(last.col)))
      => LET v == Column(last.col)
             g == Column(last.grp)
             n == Shorter(v, g)
             out == last.res.out
         IN  /\ last.res.status = "ok"
             /\ UniqueKeys(out)
             /\ {out[i].k : i \in 1..Len(out)} = Distinct(g, n)
             /\ \A i \in 1..Len(out) : out[i].v = GroupTotal(v, g, out[i].k, n)
             /\ \A k \in Distinct(g, Len(g)) \ Distinct(g, n) : DefaultGet(out, k) = 0

\* a sum in which one group adds two different numbers
C3_Witness ==
    /\ Returned("sum")
    /\ last.res.status = "ok"
    /\ last.col # last.grp
    /\ \E i \in 1..Len(last.res.out) : last.res.out[i].v = 3

----------------------------------------------------------------------------
(* C4 as stated: sum, and avg through it, raise TypeError if any element of *)
(* the col_name column is not a number, whatever its group and its position *)
(* in the column, and return no mapping.                                    *)
C4_AnyNonNumericRaises ==
    (pc = "returned" /\ last.op \in {"sum", "avg"}
       /\ Present(last.col) /\ Present(last.grp)
       /\ ~AllNumeric(Column(last.col)))
      => /\ last.res.status = "TypeError"
         /\ last.res.out = <<>>

(* C4 as amended: sum, and avg through it, raise TypeError exactly when one *)
(* of the elements of col_name that is paired with a group_by element (the  *)
(* first min(len(col_name), len(group_by)) elements; every element when the *)
(* columns are equally long) is not a number, whatever its group and its    *)
(* position among them; the error is raised at the first such element, no   *)
(* element is coerced or skipped and no mapping is returned.                *)
C4_PairedNonNumericRaises ==
    (pc = "returned" /\ last.op \in {"sum", "avg"}
       /\ Present(last.col) /\ Present(last.grp))
      => LET v == Column(last.col)
             g == Column(last.grp)
             bad == FirstBad(v, Shorter(v, g))
         IN  /\ (bad # 0) <=> (last.res.status = "TypeError")
             /\ (bad # 0) => /\ last.res.out = <<>>
                             /\ last.res.steps = bad - 1
             /\ (bad = 0) => last.res.status = "ok"
             /\ (Len(v) = Len(g) /\ ~AllNumeric(v)) => last.res.status = "TypeError"

\* avg raised TypeError at a second element, which belongs to another group
\* than the first
C4_Witness ==
    /\ Returned("avg")
    /\ last.res.status = "TypeError"
    /\ last.res.steps = 1
    /\ Present(last.col) /\ Present(last.grp)
    /\ Column(last.grp)[1] # Column(last.grp)[2]

----------------------------------------------------------------------------
(* C5 as stated: with present columns and numeric col_name values, sum and  *)
(* count have identical key sets, avg has an entry for every distinct value *)
(* of the group_by column, the entry is sum[k] / count[k], and count[k] is  *)
(* never zero.                                                              *)
C5_AvgEveryGroupKey ==
    (Returned("avg") /\ Present(last.col) /\ Present(last.grp)
       /\ AllNumeric(Column(last.col)))
      => LET g == Column(last.grp)
             out == last.res.out
         IN  /\ last.res.status = "ok"
             /\ DictKeys(sum(data_table, last.col, last.grp).out)
                  = DictKeys(count(data_table, last.grp).out)
             /\ {out[i].k : i \in 1..Len(out)} = Distinct(g, Len(g))

(* C5 as amended: with present columns and numeric col_name values, the key *)
(* set of sum is the set of group_by values among the rows both columns     *)
(* have, a subset of the key set of count, and the two are identical when   *)
(* col_name is at least as long as group_by; avg has an entry for exactly   *)
(* the keys of sum, the entry equals sum[k] / count[k] with count[k] the    *)
(* number of rows of the whole group_by column that hold k, and count[k] is *)
(* never zero.                                                              *)
C5_AvgPairedGroupKeys ==
    (Returned("avg") /\ Present(last.col) /\ Present(last.grp)
       /\ AllNumeric(Column(last.col)))
      => LET v == Column(last.col)
             g == Column(last.grp)
             n == Shorter(v, g)
             out == last.res.out
         IN  /\ last.res.status = "ok"
             /\ UniqueKeys(out)
             /\ {out[i].k : i \in 1..Len(out)} = Distinct(g, n)
             /\ Distinct(g, n) \subseteq Distinct(g, Len(g))
             /\ Len(v) >= Len(g) =>
                  {out[i].k : i \in 1..Len(out)} = Distinct(g, Len(g))
             /\ \A i \in 1..Len(out) :
                   /\ GroupSize(g, out[i].k, Len(g)) >= 1
                   /\ out[i].v.den >= 1
                   /\ out[i].v.num * GroupSize(g, out[i].k, Len(g))
                        = GroupTotal(v, g, out[i].k, n) * out[i].v.den

\* an average that is no whole number: a group of two rows whose values add up to 3
C5_Witness ==
    /\ Returned("avg")
    /\ last.res.status = "ok"
    /\ \E i \in 1..Len(last.res.out) :
          last.res.out[i].v.num = 3 /\ last.res.out[i].v.den = 2

----------------------------------------------------------------------------
(* C6: when the transform succeeds on every element of a present column,    *)
(* map(col, f) keeps the column's length and row order, get(col)[i] is      *)
(* afterwards f(old get(col)[i]) for every i, and every other column is     *)
(* left unchanged.                                                          *)
C6_MapElementwise ==
    [][(pc = "ready" /\ pc' = "returned" /\ last'.op = "map"
          /\ DictHas(data_table, last'.col)
          /\ \A i \in 1..Len(DictGet(data_table, last'.col)) :
                Apply(last'.fn, DictGet(data_table, last'.col)[i]).status = "ok")
         => LET old == DictGet(data_table, last'.col)
                new == DictGet(data_table', last'.col)
            IN  /\ last'.res.status = "ok"
                /\ Len(new) = Len(old)
                /\ \A i \in 1..Len(old) : new[i] = Apply(last'.fn, old[i]).out
                /\ Len(data_table') = Len(data_table)
                /\ \A i \in 1..Len(data_table) :
                      /\ data_table'[i].k = data_table[i].k
                      /\ data_table[i].k # last'.col => data_table'[i] = data_table[i]]_vars

\* a map that changed a two-element column (to two different values) next to
\* another, non-empty column
C6_Witness ==
    /\ Returned("map")
    /\ last.res.status = "ok"
    /\ Len(data_table) = 2
    /\ \A i \in 1..Len(data_table) : Len(data_table[i].v) = 2
    /\ Column(last.col)[1] # Column(last.col)[2]
    /\ Column(last.col) # last_set[last.col]

----------------------------------------------------------------------------
(* C7 as stated: for every reachable table and every present column C,      *)
(* get(C) is exactly the sequence last bound by set(C, ...), by load or by  *)
(* the mapping the table was created from.                                  *)
C7_GetIsLastSet ==
    (pc \in {"ready", "returned"})
      => \A c \in ColNames : Present(c) => getitem(data_table, c).out = last_set[c]

(* C7 as amended: for every reachable table and every present column C,     *)
(* get(C) is exactly the sequence last bound by set(C, ...), by load, by    *)
(* the mapping the table was created from, or by a successful map(C, f),    *)
(* which rebinds C to the transformed sequence; set(C, v) on an absent name *)
(* introduces the column and on a present name overwrites it, and get,      *)
(* count, sum and avg calls (successful or failing) and failing map calls   *)
(* never change what get(C) returns for any column.                         *)
C7_GetIsLastBound ==
    (pc \in {"ready", "returned"})
      => /\ UniqueKeys(data_table)
         /\ \A c \in ColNames :
               Present(c) => /\ getitem(data_table, c).status = "ok"
                             /\ getitem(data_table, c).out = last_bound[c]
         /\ Returned("get") /\ Present(last.col) => last.res.out = last_bound[last.col]
         /\ Returned("set") => /\ Present(last.col)
                               /\ last_bound[last.col] = last.arg

\* a set that overwrote a column with a different, non-empty list while another
\* column is present
C7_Witness ==
    /\ Returned("set")
    /\ Len(data_table) = 2
    /\ data_table[1].k = last.col
    /\ Len(last.arg) = 2
    /\ data_table[2].v # <<>>

----------------------------------------------------------------------------
(* C8: read_csv on a file whose header has N fields raises ValueError as    *)
(* soon as a data row has a field count other than N, whatever the position *)
(* of that row and however many well-formed rows precede it; the load is    *)
(* aborted at that row and no table is returned.                            *)
C8_MalformedRowAborts ==
    (last.op = "load" /\ Len(last.arg) >= 1)
      => /\ (BadRows(last.arg) # {}) <=> (last.res.status = "ValueError")
         /\ (BadRows(last.arg) # {}) =>
               /\ pc = "failed"
               /\ data_table = <<>>
               /\ last.res.out = <<>>
               /\ last.res.steps = FirstBadRow(last.arg) - 1
         /\ (BadRows(last.arg) = {}) => (last.res.status = "ok" /\ pc = "returned")

\* a load that failed at the second data row, after a well-formed first one
C8_Witness ==
    /\ pc = "failed"
    /\ last.op = "load"
    /\ last.res.status = "ValueError"
    /\ last.res.steps = 2
    /\ Len(last.arg[1]) = 2

----------------------------------------------------------------------------
(* C9 as stated: for a well-formed CSV input (a header of N names and m     *)
(* rows of N fields) read_csv returns a table with one column per header    *)
(* name, in header order, the column of the j-th header name being the      *)
(* j-th fields of the data rows in file row order, as text; every column    *)
(* has length m.                                                            *)
C9_ColumnPerHeaderName ==
    (Returned("load") /\ Len(last.arg) >= 1)
      => LET h == last.arg[1]
         IN  /\ Len(data_table) = Len(h)
             /\ \A j \in 1..Len(h) :
                   /\ data_table[j].k = h[j]
                   /\ Column(h[j]) = FieldsAt(last.arg, j)
                   /\ Len(Column(h[j])) = Len(last.arg) - 1

(* C9 as amended: for a well-formed CSV input read_csv returns a table with *)
(* one column per distinct header name, in the order of the names' first    *)
(* occurrence in the header; the column of a name is the sequence, in file  *)
(* row order and as text, of the fields at the last header position that    *)
(* bears the name (for a header of N distinct names: one column per header  *)
(* position, in header order, the j-th column holding the j-th fields);     *)
(* every column has length m; the empty file gives the empty table.         *)
C9_ColumnPerDistinctName ==
    Returned("load")
      => IF last.arg = <<>>
         THEN data_table = <<>>
         ELSE LET h == last.arg[1]
              IN  /\ UniqueKeys(data_table)
                  /\ {data_table[i].k : i \in 1..Len(data_table)}
                       = {h[j] : j \in 1..Len(h)}
                  /\ \A i, j \in 1..Len(data_table) :
                        i < j => FirstPos(h, data_table[i].k) < FirstPos(h, data_table[j].k)
                  /\ \A i \in 1..Len(data_table) :
                        /\ data_table[i].v = FieldsAt(last.arg, LastPos(h, data_table[i].k))
                        /\ Len(data_table[i].v) = Len(last.arg) - 1
                  /\ (\A p, q \in 1..Len(h) : h[p] = h[q] => p = q)
                       => /\ Len(data_table) = Len(h)
                          /\ \A j \in 1..Len(h) :
                                /\ data_table[j].k = h[j]
                                /\ data_table[j].v = FieldsAt(last.arg, j)

\* a loaded file of two distinct header names and two different data rows whose
\* fields differ within a row
C9_Witness ==
    /\ Returned("load")
    /\ Len(last.arg) = 3
    /\ Len(data_table) = 2
    /\ last.arg[2] # last.arg[3]
    /\ data_table[1].v # data_table[2].v
    /\ data_table[1].v[1] # data_table[1].v[2]

----------------------------------------------------------------------------
(* C10: if the transform fails on an element of a present column, map       *)
(* raises that failure, transforms no further element, and leaves the table *)
(* exactly as it was: no element of the column has been replaced.           *)
C10_FailedMapKeepsTable ==
    [][(pc = "ready" /\ pc' = "returned" /\ last'.op = "map"
          /\ DictHas(data_table, last'.col)
          /\ \E i \in 1..Len(DictGet(data_table, last'.col)) :
                Apply(last'.fn, DictGet(data_table, last'.col)[i]).status # "ok")
         => LET old == DictGet(data_table, last'.col)
                bad == FirstFailure(last'.fn, old)
            IN  /\ last'.res.status = Apply(last'.fn, old[bad]).status
                /\ last'.res.steps = bad - 1
                /\ data_table' = data_table]_vars

\* a map whose transform failed on the second element, after it had succeeded on
\* the first with a value other than the element
C10_Witness ==
    /\ Returned("map")
    /\ last.res.status # "ok"
    /\ Present(last.col)
    /\ last.res.steps = 1
    /\ Apply(last.fn, Column(last.col)[1]).out # Column(last.col)[1]

====
